---- MODULE Spec2Model ----
(***************************************************************************)
(* Auction bidding of the marketplace backend: AuctionsService (placeBid,  *)
(* endAuction, cancelAuction, extendAuction) and the parallel bidding code *)
(* of ListingsService (placeBid), modelled as concurrent invocations whose *)
(* every awaited query against the remote store is one atomic step.  The   *)
(* expiry sweeps of both services (checkAndEndExpiredAuctions and          *)
(* closeExpiredAuctions) run over several auctions, whose rows are kept in *)
(* tables.  The creation of listings (the route and createListing of       *)
(* ListingsService) and the presence tracking of ChatGateway are modelled  *)
(* on state of their own.                                                  *)
(*                                                                         *)
(* Money is an integer number of cents.  The increment rule compares in    *)
(* hundredths of a cent, so that 5% of a cent amount is exact.  Time is in *)
(* milliseconds.  The invocations bid on, close, cancel and extend one     *)
(* auction (and its listing): invocations on different auctions share no   *)
(* row.  The updated_at/created_at columns are written but never read by   *)
(* the modelled code and are left out, but for the created_at of the       *)
(* auctions rows createListing inserts.  Both services write to a table    *)
(* named bids with different columns; the rows keyed by auction_id (bids)  *)
(* and by listing_id (lbids) are kept apart.                               *)
(***************************************************************************)
EXTENDS Integers, Sequences, FiniteSets, TLC

\* ---------------------------------------------------------------- bounds
NumProcs == 2        \* concurrent invocations in flight
MaxCalls == 2        \* invocations started in one behaviour
MaxTicks == 2        \* clock ticks in one behaviour
NumAuctions == 2     \* auctions an expiry sweep runs over
NumSockets == 3      \* sockets that connect to the chat gateway

\* ------------------------------------------------------ program constants
FivePercent == 5     \* currentBid * 0.05, as hundredths
OneDollar == 100     \* the flat minimum increment 1 (dollar), in cents
MsPerMinute == 60000
MaxExtensionMinutes == 1440

\* ------------------------------------------------------------ input sets
Seller == "seller"
NoUser == "none"
Users == {Seller, "alice", "bob"}
Admins == {}
Procs == 1..NumProcs
StartPrices == {1980}
AuctionEnd0 == 1 * MsPerMinute
Amounts == {1979, 2079, 2080, 2183, 2184}
Minutes == {-1, 1, MaxExtensionMinutes + 1}
TickMs == MsPerMinute
ListingTypes == {"auction", "fixed_price"}
EndInputs == {0, AuctionEnd0}
ReservePrices == {0, 2500}
AuctionIds == 1..NumAuctions
AuctionEnds == {AuctionEnd0, AuctionEnd0 + TickMs}
CreateEnds == {0} \cup AuctionEnds   \* auction_end of a request, 0 for none
SocketIds == 1..NumSockets

VARIABLES now, auction, listing, bids, lbids, returned, proc, calls,
          tables, sweep, ltable, atable, create, sockets, onlineUsers, outcome

\* the state of the expiry sweeps: the rows they run over and their invocations
sweepVars == <<tables, sweep>>

\* the state of createListing: the listings and auctions rows its requests
\* have stored, and the request under way
createVars == <<ltable, atable, create>>

\* the state of the chat gateway: the sockets, the presence map, and what
\* became of the last send_message event of each socket
chatVars == <<sockets, onlineUsers, outcome>>

vars == <<now, auction, listing, bids, lbids, returned, proc, calls, tables, sweep,
          ltable, atable, create, sockets, onlineUsers, outcome>>

Max2(a, b) == IF a >= b THEN a ELSE b

\* the value of the joined column `listing:listings (seller_id)` in the row
\* read: an object or an array of the matching listings rows, whichever the
\* client returns for the relation; no row matches once the listing is deleted
\* (an object join is then null, an array join empty)
JoinShapes == {"object", "array"}

JoinedListing(shape) ==
  [array |-> shape = "array",
   rows |-> IF listing.exists THEN <<[seller_id |-> listing.seller_id]>> ELSE <<>>]

\* Array.isArray(auction.listing) ? auction.listing[0] : auction.listing,
\* then `listing && listing.seller_id`: NoUser when the listing is falsy
ListingSellerOf(j) ==
  IF j.array
  THEN IF Len(j.rows) >= 1 THEN j.rows[1].seller_id ELSE NoUser
  ELSE IF j.rows = <<>> THEN NoUser ELSE j.rows[1].seller_id

\* auction.current_bid || auction.starting_price
CurrentBidOf(a) == IF a.current_bid # 0 THEN a.current_bid ELSE a.starting_price

\* Math.max(currentBid * 0.05, 1), in hundredths of a cent
MinIncrement(currentBid) == Max2(currentBid * FivePercent, OneDollar * 100)

\* the validation chain without its two checks of the amount
ValidateBidAnyAmount(a, join, bidder, amount, t) ==
  IF a.status # "active" THEN "NotActive"
  ELSE IF a.auction_end < t THEN "Ended"
  ELSE IF ListingSellerOf(join) # NoUser /\ ListingSellerOf(join) = bidder THEN "SelfBid"
  ELSE "Admit"

\* the validation chain of AuctionsService.placeBid over the row it read;
\* the first failing check decides
ValidateBid(a, join, bidder, amount, t) ==
  IF a.status # "active" THEN "NotActive"
  ELSE IF a.auction_end < t THEN "Ended"
  ELSE IF ListingSellerOf(join) # NoUser /\ ListingSellerOf(join) = bidder THEN "SelfBid"
  ELSE IF amount <= CurrentBidOf(a) THEN "NotHigher"
  ELSE IF amount * 100 < CurrentBidOf(a) * 100 + MinIncrement(CurrentBidOf(a)) THEN "TooLow"
  ELSE "Admit"

\* the exception class placeBid throws for an outcome: the failed read of the
\* auction and the missing auction both throw NotFoundException; every
\* validation failure and every failure after the validation throw
\* BadRequestException
PlaceBidException(r) ==
  IF r = "Ok" THEN "none"
  ELSE IF r = "NotFound" THEN "NotFoundException"
  ELSE "BadRequestException"

\* Number.prototype.toFixed(2) of an amount given in hundredths of a cent:
\* the amount rounded to whole cents
ToFixed2(x) == (x + 50) \div 100

\* the amount printed in the message of a rejection for the amount: currentBid
\* in "Bid must be higher than current bid ($...)", minIncrement in "Bid must
\* increase by at least $..."; in cents
ErrorAmount(v, a) ==
  IF v = "NotHigher" THEN ToFixed2(CurrentBidOf(a) * 100)
  ELSE IF v = "TooLow" THEN ToFixed2(MinIncrement(CurrentBidOf(a)))
  ELSE 0

\* an invocation: its position, its arguments and what it keeps of the rows it
\* read (rd_bid = currentBid, rd_count = auction.bid_count, bid = id of the bid
\* row it got back from the insert, 0 for null).  closed is a history field:
\* whether the auction had status ended when endAuction was called.  caller is
\* a history field too: the authenticated user of a PUT :id/end request, which
\* the route does not hand to the service.
IdleProc == [pc |-> "idle", op |-> "none", bidder |-> NoUser, amount |-> 0,
             minutes |-> 0, rd_bid |-> 0, rd_count |-> 0, rd_end |-> 0,
             bid |-> 0, closed |-> FALSE, caller |-> NoUser, result |-> "none"]

\* the store after createListing of a listing of the given type: an auction
\* listing gets its auctions row with current_bid = starting_price, bid_count 0
\* and no reserve_price; the listings row is written without auction_end
\* (0 stands for null)
InitOne(type) ==
  /\ now = 0
  /\ \E price \in StartPrices :
       /\ auction = [status |-> "active", auction_end |-> AuctionEnd0,
                     current_bid |-> price, starting_price |-> price,
                     bid_count |-> 0, winning_bidder_id |-> NoUser,
                     reserve_price |-> 0]
       /\ listing = [exists |-> TRUE, seller_id |-> Seller, status |-> "active",
                     listing_type |-> type, auction_end |-> 0,
                     price_amount |-> price]
  /\ bids = <<>>
  /\ lbids = <<>>
  /\ returned = {}
  /\ proc = [p \in Procs |-> IdleProc]
  /\ calls = 0

\* an invocation of a sweep: the time it took, the rows of its query still to
\* be handled, and the highest bid of the auction it is closing.  found (the
\* ids its query returned) and log (the auctions it handled, in order, and
\* whether the closing write succeeded) are history fields
IdleSweep == [pc |-> "idle", op |-> "none", now |-> 0, todo |-> <<>>, bid |-> 0,
              bidder |-> NoUser, found |-> {}, log |-> <<>>, result |-> "none"]

\* no sweep runs and no further auction exists
NoSweep ==
  /\ tables = <<>>
  /\ sweep = IdleSweep

\* a createListing request: its position, the id of its listing, the fields
\* of its body, and the time at which the route validated it (a history field)
IdleCreate == [pc |-> "idle", id |-> 0, listing_type |-> "none", auction_end |-> 0,
               price |-> 0, at |-> 0, result |-> "none"]

\* no request has stored a row
NoCreate ==
  /\ ltable = {}
  /\ atable = {}
  /\ create = IdleCreate

\* a socket before it connects
NewSocket == [state |-> "new", userId |-> NoUser]

\* the gateway after construction: no socket, an empty presence map (0 for
\* no entry)
NoChat ==
  /\ sockets = [s \in SocketIds |-> NewSocket]
  /\ onlineUsers = [u \in Users |-> 0]
  /\ outcome = [s \in SocketIds |-> "none"]

InitWith(type) == InitOne(type) /\ NoSweep /\ NoCreate /\ NoChat

Init == InitWith("auction")

Free(p) == proc[p].pc \in {"idle", "done"}

\* the invocation returned or threw: only its outcome is kept
Finish(p, res) == [proc EXCEPT ![p] = [IdleProc EXCEPT !.pc = "done", !.op = proc[p].op,
                                                        !.result = res]]

\* ------------------------------------------------ AuctionsService.placeBid
StartPlaceBid(p) ==
  /\ Free(p) /\ calls < MaxCalls
  /\ \E b \in Users, amt \in Amounts :
       proc' = [proc EXCEPT ![p] = [IdleProc EXCEPT !.pc = "pb_read", !.op = "placeBid",
                                                    !.bidder = b, !.amount = amt]]
  /\ calls' = calls + 1
  /\ UNCHANGED <<now, auction, listing, bids, lbids, returned, sweepVars, createVars, chatVars>>

\* select ... .single(), then the validation chain (local computation)
PlaceBidRead(p, F) ==
  /\ proc[p].pc = "pb_read"
  /\ \E ok \in F, shape \in JoinShapes :
       IF ~ok THEN proc' = Finish(p, "NotFound")
       ELSE LET v == ValidateBid(auction, JoinedListing(shape), proc[p].bidder,
                                 proc[p].amount, now)
            IN IF v = "Admit"
               THEN proc' = [proc EXCEPT ![p].pc = "pb_insert",
                                         ![p].rd_bid = CurrentBidOf(auction),
                                         ![p].rd_count = auction.bid_count]
               ELSE proc' = Finish(p, v)
  /\ UNCHANGED <<now, auction, listing, bids, lbids, returned, calls, sweepVars, createVars, chatVars>>

\* insert into bids; a failed insert is only logged (bid stays null).
\* read_bid and open_at_insert are history fields, not columns: the currentBid
\* the invocation validated against, and whether the auction was active and
\* unexpired when the row was inserted.
PlaceBidInsert(p, F) ==
  /\ proc[p].pc = "pb_insert"
  /\ \E ok \in F :
       IF ok
       THEN /\ bids' = Append(bids, [id |-> Len(bids) + 1, bidder_id |-> proc[p].bidder,
                                     bid_amount |-> proc[p].amount,
                                     is_winning |-> FALSE,
                                     read_bid |-> proc[p].rd_bid,
                                     open_at_insert |-> (auction.status = "active"
                                                         /\ now < auction.auction_end)])
            /\ proc' = [proc EXCEPT ![p].pc = "pb_update", ![p].bid = Len(bids) + 1]
       ELSE /\ bids' = bids
            /\ proc' = [proc EXCEPT ![p].pc = "pb_update", ![p].bid = 0]
  /\ UNCHANGED <<now, auction, listing, lbids, returned, calls, sweepVars, createVars, chatVars>>

\* update auctions set current_bid, bid_count where id; then return bid.id ...
\* (reading a field of the null bid throws, and the catch rethrows)
PlaceBidUpdate(p, F) ==
  /\ proc[p].pc = "pb_update"
  /\ \E ok \in F :
       IF ~ok
       THEN /\ proc' = Finish(p, "Failed")
            /\ UNCHANGED <<auction, returned>>
       ELSE /\ auction' = [auction EXCEPT !.current_bid = proc[p].amount,
                                          !.bid_count = (IF proc[p].rd_count # 0
                                                         THEN proc[p].rd_count ELSE 0) + 1]
            /\ IF proc[p].bid = 0
               THEN /\ proc' = Finish(p, "Failed")
                    /\ returned' = returned
               ELSE /\ proc' = Finish(p, "Ok")
                    /\ returned' = returned \cup {proc[p].bid}
  /\ UNCHANGED <<now, listing, bids, lbids, calls, sweepVars, createVars, chatVars>>

\* ---------------------------------------------- AuctionsService.endAuction
\* PUT :id/end behind SupabaseGuard: any authenticated user; the handler passes
\* the auction id alone
StartEndAuction(p) ==
  /\ Free(p) /\ calls < MaxCalls
  /\ \E u \in Users :
       proc' = [proc EXCEPT ![p] = [IdleProc EXCEPT !.pc = "ea_read", !.op = "endAuction",
                                                    !.closed = (auction.status = "ended"),
                                                    !.caller = u]]
  /\ calls' = calls + 1
  /\ UNCHANGED <<now, auction, listing, bids, lbids, returned, sweepVars, createVars, chatVars>>

\* the rows `order('bid_amount', desc).limit(1)` may return: a bid of maximal
\* amount (the order among equal amounts is the store's choice)
HighestIn(bs) == {i \in 1..Len(bs) : \A j \in 1..Len(bs) :
                                        bs[j].bid_amount <= bs[i].bid_amount}

HighestBids == HighestIn(bids)

\* select * from bids ... limit(1).single(): no row or a failed query leave
\* highestBid null (bid = 0)
EndReadHighest(p, F) ==
  /\ proc[p].pc = "ea_read"
  /\ \E ok \in F :
       IF ok /\ HighestBids # {}
       THEN \E i \in HighestBids :
              proc' = [proc EXCEPT ![p].pc = "ea_mark", ![p].bid = i,
                                   ![p].bidder = bids[i].bidder_id]
       ELSE proc' = [proc EXCEPT ![p].pc = "ea_update", ![p].bid = 0]
  /\ UNCHANGED <<now, auction, listing, bids, lbids, returned, calls, sweepVars, createVars, chatVars>>

\* update bids set is_winning = true where id = highestBid.id (result unchecked)
EndMarkWinning(p, F) ==
  /\ proc[p].pc = "ea_mark"
  /\ \E ok \in F :
       bids' = IF ok THEN [bids EXCEPT ![proc[p].bid].is_winning = TRUE] ELSE bids
  /\ proc' = [proc EXCEPT ![p].pc = "ea_listing"]
  /\ UNCHANGED <<now, auction, listing, lbids, returned, calls, sweepVars, createVars, chatVars>>

\* select listing_id from auctions; update listings set status = 'sold'
\* (results unchecked; listing_id never changes, so both queries are one step)
EndListingSold(p, F) ==
  /\ proc[p].pc = "ea_listing"
  /\ \E ok \in F :
       listing' = IF ok /\ listing.exists THEN [listing EXCEPT !.status = "sold"]
                  ELSE listing
  /\ proc' = [proc EXCEPT ![p].pc = "ea_update"]
  /\ UNCHANGED <<now, auction, bids, lbids, returned, calls, sweepVars, createVars, chatVars>>

\* update auctions set status = 'ended' [, winning_bidder_id] where id
EndUpdateAuction(p, F) ==
  /\ proc[p].pc = "ea_update"
  /\ \E ok \in F :
       IF ok
       THEN /\ auction' = [auction EXCEPT
                             !.status = "ended",
                             !.winning_bidder_id = IF proc[p].bid # 0 THEN proc[p].bidder
                                                   ELSE auction.winning_bidder_id]
            /\ proc' = Finish(p, "Ok")
       ELSE /\ auction' = auction
            /\ proc' = Finish(p, "Failed")
  /\ UNCHANGED <<now, listing, bids, lbids, returned, calls, sweepVars, createVars, chatVars>>

\* ------------------------------------------- AuctionsService.cancelAuction
StartCancelAuction(p) ==
  /\ Free(p) /\ calls < MaxCalls
  /\ proc' = [proc EXCEPT ![p] = [IdleProc EXCEPT !.pc = "ca_read", !.op = "cancelAuction"]]
  /\ calls' = calls + 1
  /\ UNCHANGED <<now, auction, listing, bids, lbids, returned, sweepVars, createVars, chatVars>>

\* select id from bids where auction_id limit 1 (a failed query leaves bids null)
CancelReadBids(p, F) ==
  /\ proc[p].pc = "ca_read"
  /\ \E ok \in F :
       IF ok /\ Len(bids) > 0
       THEN proc' = Finish(p, "HasBids")
       ELSE proc' = [proc EXCEPT ![p].pc = "ca_update"]
  /\ UNCHANGED <<now, auction, listing, bids, lbids, returned, calls, sweepVars, createVars, chatVars>>

\* update auctions set status = 'cancelled' where id and status = 'active',
\* .single(): no matching row is an error
CancelUpdate(p, F) ==
  /\ proc[p].pc = "ca_update"
  /\ \E ok \in F :
       IF ok /\ auction.status = "active"
       THEN /\ auction' = [auction EXCEPT !.status = "cancelled"]
            /\ proc' = Finish(p, "Ok")
       ELSE /\ auction' = auction
            /\ proc' = Finish(p, "Failed")
  /\ UNCHANGED <<now, listing, bids, lbids, returned, calls, sweepVars, createVars, chatVars>>

\* ------------------------------------------- AuctionsService.extendAuction
StartExtendAuction(p) ==
  /\ Free(p) /\ calls < MaxCalls
  /\ \E m \in Minutes :
       proc' = [proc EXCEPT ![p] = [IdleProc EXCEPT !.pc = "ex_read", !.op = "extendAuction",
                                                    !.minutes = m]]
  /\ calls' = calls + 1
  /\ UNCHANGED <<now, auction, listing, bids, lbids, returned, sweepVars, createVars, chatVars>>

\* select auction_end, status .single(); the status and 24 hour checks
ExtendRead(p, F) ==
  /\ proc[p].pc = "ex_read"
  /\ \E ok \in F :
       IF ~ok THEN proc' = Finish(p, "NotFound")
       ELSE IF auction.status # "active" THEN proc' = Finish(p, "NotActive")
       ELSE IF proc[p].minutes > MaxExtensionMinutes THEN proc' = Finish(p, "TooLong")
       ELSE proc' = [proc EXCEPT ![p].pc = "ex_update", ![p].rd_end = auction.auction_end]
  /\ UNCHANGED <<now, auction, listing, bids, lbids, returned, calls, sweepVars, createVars, chatVars>>

\* update auctions set auction_end = currentEnd + additionalMinutes * 60000
ExtendUpdate(p, F) ==
  /\ proc[p].pc = "ex_update"
  /\ \E ok \in F :
       IF ok
       THEN /\ auction' = [auction EXCEPT
                             !.auction_end = proc[p].rd_end + proc[p].minutes * MsPerMinute]
            /\ proc' = Finish(p, "Ok")
       ELSE /\ auction' = auction
            /\ proc' = Finish(p, "Failed")
  /\ UNCHANGED <<now, listing, bids, lbids, returned, calls, sweepVars, createVars, chatVars>>

\* ----------------------------------------------- ListingsService.placeBid
StartListingBid(p) ==
  /\ Free(p) /\ calls < MaxCalls
  /\ \E b \in Users, amt \in Amounts :
       proc' = [proc EXCEPT ![p] = [IdleProc EXCEPT !.pc = "lb_read", !.op = "listingBid",
                                                    !.bidder = b, !.amount = amt]]
  /\ calls' = calls + 1
  /\ UNCHANGED <<now, auction, listing, bids, lbids, returned, sweepVars, createVars, chatVars>>

\* the checks of ListingsService.placeBid over the listing row it read
ValidateListingBid(l, bidder, t) ==
  IF l.listing_type # "auction" THEN "NotAuction"
  ELSE IF l.seller_id = bidder THEN "SelfBid"
  ELSE IF l.auction_end # 0 /\ l.auction_end < t THEN "Ended"
  ELSE "Admit"

\* select listing_type, auction_end, price_amount, seller_id .single()
ListingBidRead(p, F) ==
  /\ proc[p].pc = "lb_read"
  /\ \E ok \in F :
       IF ~ok \/ ~listing.exists THEN proc' = Finish(p, "NotFound")
       ELSE LET v == ValidateListingBid(listing, proc[p].bidder, now)
            IN IF v = "Admit"
               THEN proc' = [proc EXCEPT ![p].pc = "lb_highest",
                                         ![p].rd_bid = listing.price_amount]
               ELSE proc' = Finish(p, v)
  /\ UNCHANGED <<now, auction, listing, bids, lbids, returned, calls, sweepVars, createVars, chatVars>>

\* the amount of the row `order('amount', desc).limit(1).single()` returns,
\* 0 when there is none
HighestListingBid ==
  IF lbids = <<>> THEN 0
  ELSE CHOOSE a \in {lbids[i].amount : i \in 1..Len(lbids)} :
         \A j \in 1..Len(lbids) : lbids[j].amount <= a

\* highestBid?.amount || listing.price_amount, then amount <= currentPrice
ListingBidHighest(p, F) ==
  /\ proc[p].pc = "lb_highest"
  /\ \E ok \in F :
       LET highest == IF ok THEN HighestListingBid ELSE 0
           currentPrice == IF highest # 0 THEN highest ELSE proc[p].rd_bid
       IN IF proc[p].amount <= currentPrice
          THEN proc' = Finish(p, "NotHigher")
          ELSE proc' = [proc EXCEPT ![p].pc = "lb_insert", ![p].rd_bid = currentPrice]
  /\ UNCHANGED <<now, auction, listing, bids, lbids, returned, calls, sweepVars, createVars, chatVars>>

\* insert into bids (listing_id, bidder_id, amount, status); an error is thrown
ListingBidInsert(p, F) ==
  /\ proc[p].pc = "lb_insert"
  /\ \E ok \in F :
       IF ok
       THEN /\ lbids' = Append(lbids, [id |-> Len(lbids) + 1, bidder_id |-> proc[p].bidder,
                                       amount |-> proc[p].amount, status |-> "active"])
            /\ proc' = [proc EXCEPT ![p].pc = "lb_update", ![p].bid = Len(lbids) + 1]
       ELSE /\ lbids' = lbids
            /\ proc' = Finish(p, "Failed")
  /\ UNCHANGED <<now, auction, listing, bids, returned, calls, sweepVars, createVars, chatVars>>

\* update listings set price_amount = amount (result unchecked); return bid
ListingBidUpdate(p, F) ==
  /\ proc[p].pc = "lb_update"
  /\ \E ok \in F :
       listing' = IF ok /\ listing.exists THEN [listing EXCEPT !.price_amount = proc[p].amount]
                  ELSE listing
  /\ proc' = Finish(p, "Ok")
  /\ UNCHANGED <<now, auction, bids, lbids, returned, calls, sweepVars, createVars, chatVars>>

\* ------------ ListingsController.updateListing, ListingsService.updateListing
\* with updateData = {auction_end}
StartUpdateListing(p) ==
  /\ Free(p) /\ calls < MaxCalls
  /\ \E e \in EndInputs :
       proc' = [proc EXCEPT ![p] = [IdleProc EXCEPT !.pc = "ul_read", !.op = "updateListing",
                                                    !.rd_end = e]]
  /\ calls' = calls + 1
  /\ UNCHANGED <<now, auction, listing, bids, lbids, returned, sweepVars, createVars, chatVars>>

\* the controller rejects an auction_end that is not in the future; then
\* select id, image_urls .single()
UpdateListingRead(p, F) ==
  /\ proc[p].pc = "ul_read"
  /\ \E ok \in F :
       IF proc[p].rd_end # 0 /\ proc[p].rd_end <= now THEN proc' = Finish(p, "NotFuture")
       ELSE IF ~ok \/ ~listing.exists THEN proc' = Finish(p, "NotFound")
       ELSE proc' = [proc EXCEPT ![p].pc = "ul_update"]
  /\ UNCHANGED <<now, auction, listing, bids, lbids, returned, calls, sweepVars, createVars, chatVars>>

\* update listings set ...updateFields where id .single()
UpdateListingWrite(p, F) ==
  /\ proc[p].pc = "ul_update"
  /\ \E ok \in F :
       IF ok /\ listing.exists
       THEN /\ listing' = IF proc[p].rd_end # 0
                          THEN [listing EXCEPT !.auction_end = proc[p].rd_end]
                          ELSE listing
            /\ proc' = Finish(p, "Ok")
       ELSE /\ listing' = listing
            /\ proc' = Finish(p, "Failed")
  /\ UNCHANGED <<now, auction, bids, lbids, returned, calls, sweepVars, createVars, chatVars>>

\* ------------------------------------------- ListingsService.deleteListing
StartDeleteListing(p) ==
  /\ Free(p) /\ calls < MaxCalls
  /\ \E u \in Users :
       proc' = [proc EXCEPT ![p] = [IdleProc EXCEPT !.pc = "dl_read", !.op = "deleteListing",
                                                    !.bidder = u]]
  /\ calls' = calls + 1
  /\ UNCHANGED <<now, auction, listing, bids, lbids, returned, sweepVars, createVars, chatVars>>

\* select seller_id .single(); the ownership check (a user who is not the
\* seller must have the role admin)
DeleteListingRead(p, F) ==
  /\ proc[p].pc = "dl_read"
  /\ \E ok \in F :
       IF ~ok \/ ~listing.exists THEN proc' = Finish(p, "NotFound")
       ELSE IF listing.seller_id # proc[p].bidder /\ proc[p].bidder \notin Admins
       THEN proc' = Finish(p, "Unauthorized")
       ELSE proc' = [proc EXCEPT ![p].pc = "dl_bids"]
  /\ UNCHANGED <<now, auction, listing, bids, lbids, returned, calls, sweepVars, createVars, chatVars>>

\* delete from bids where listing_id (result unchecked)
DeleteListingBids(p, F) ==
  /\ proc[p].pc = "dl_bids"
  /\ \E ok \in F : lbids' = IF ok THEN <<>> ELSE lbids
  /\ proc' = [proc EXCEPT ![p].pc = "dl_row"]
  /\ UNCHANGED <<now, auction, listing, bids, returned, calls, sweepVars, createVars, chatVars>>

\* delete from listings where id; the auctions row of the listing is not touched
DeleteListingRow(p, F) ==
  /\ proc[p].pc = "dl_row"
  /\ \E ok \in F :
       IF ok
       THEN /\ listing' = [listing EXCEPT !.exists = FALSE]
            /\ proc' = Finish(p, "Ok")
       ELSE /\ listing' = listing
            /\ proc' = Finish(p, "Failed")
  /\ UNCHANGED <<now, auction, bids, lbids, returned, calls, sweepVars, createVars, chatVars>>

\* ------------------------------ AuctionsService.checkAndEndExpiredAuctions
\* the orders in which a query without an order clause may return the rows S
Orderings(S) == {o \in [1..Cardinality(S) -> S] : \A i, j \in 1..Cardinality(S) :
                                                    o[i] = o[j] => i = j}

\* const now = new Date().toISOString()
StartSweep ==
  /\ sweep.pc = "idle"
  /\ sweep' = [IdleSweep EXCEPT !.pc = "sw_select",
                                !.op = "checkAndEndExpiredAuctions", !.now = now]
  /\ UNCHANGED <<now, auction, listing, bids, lbids, returned, proc, calls, tables, createVars, chatVars>>

\* the invocation returned: its working fields are dropped
SweepDone(log) ==
  [IdleSweep EXCEPT !.pc = "done", !.op = sweep.op, !.found = sweep.found,
                    !.log = log, !.result = "Void"]

\* the active auctions with auction_end < now (.lt)
ExpiredAuctions(t) == {id \in AuctionIds : /\ tables[id].auction.status = "active"
                                           /\ tables[id].auction.auction_end < t}

\* select id from auctions where status = 'active' and auction_end < now;
\* no data (a failed query) or no row: return
SweepSelect(F) ==
  /\ sweep.pc = "sw_select"
  /\ \E ok \in F :
       IF ok /\ ExpiredAuctions(sweep.now) # {}
       THEN \E o \in Orderings(ExpiredAuctions(sweep.now)) :
              sweep' = [sweep EXCEPT !.pc = "sw_read", !.todo = o,
                                     !.found = ExpiredAuctions(sweep.now)]
       ELSE sweep' = SweepDone(<<>>)
  /\ UNCHANGED <<now, auction, listing, bids, lbids, returned, proc, calls, tables, createVars, chatVars>>

\* endAuction(auction.id), its query for the highest bid
SweepEndRead(F) ==
  /\ sweep.pc = "sw_read"
  /\ LET bs == tables[Head(sweep.todo)].bids
     IN \E ok \in F :
          IF ok /\ HighestIn(bs) # {}
          THEN \E i \in HighestIn(bs) :
                 sweep' = [sweep EXCEPT !.pc = "sw_mark", !.bid = i,
                                        !.bidder = bs[i].bidder_id]
          ELSE sweep' = [sweep EXCEPT !.pc = "sw_update", !.bid = 0]
  /\ UNCHANGED <<now, auction, listing, bids, lbids, returned, proc, calls, tables, createVars, chatVars>>

\* endAuction(auction.id), update bids set is_winning = true (result unchecked)
SweepEndMark(F) ==
  /\ sweep.pc = "sw_mark"
  /\ \E ok \in F :
       /\ tables' = IF ok
                    THEN [tables EXCEPT ![Head(sweep.todo)].bids[sweep.bid].is_winning
                                          = TRUE]
                    ELSE tables
       /\ sweep' = [sweep EXCEPT !.pc = "sw_listing"]
  /\ UNCHANGED <<now, auction, listing, bids, lbids, returned, proc, calls, createVars, chatVars>>

\* endAuction(auction.id), update listings set status = 'sold' (unchecked)
SweepEndListing(F) ==
  /\ sweep.pc = "sw_listing"
  /\ \E ok \in F :
       /\ tables' = IF ok
                    THEN [tables EXCEPT ![Head(sweep.todo)].listing.status = "sold"]
                    ELSE tables
       /\ sweep' = [sweep EXCEPT !.pc = "sw_update"]
  /\ UNCHANGED <<now, auction, listing, bids, lbids, returned, proc, calls, createVars, chatVars>>

\* a loop that a failed closure leaves: the sweep returns at once
SweepAdvanceAborting(ok, next) ==
  LET log == Append(sweep.log, [id |-> Head(sweep.todo), ok |-> ok])
  IN IF Tail(sweep.todo) = <<>> \/ ~ok
     THEN SweepDone(log)
     ELSE [sweep EXCEPT !.pc = next, !.todo = Tail(sweep.todo),
                        !.bid = 0, !.bidder = NoUser, !.log = log]

\* the loop goes on to the next row, or the sweep returns after the last
SweepAdvance(ok, next) ==
  LET log == Append(sweep.log, [id |-> Head(sweep.todo), ok |-> ok])
  IN IF Tail(sweep.todo) = <<>>
     THEN SweepDone(log)
     ELSE [sweep EXCEPT !.pc = next, !.todo = Tail(sweep.todo),
                        !.bid = 0, !.bidder = NoUser, !.log = log]

\* endAuction(auction.id), update auctions set status = 'ended'
\* [, winning_bidder_id]; its error is thrown, caught by the loop and logged
SweepEndUpdate(F) ==
  /\ sweep.pc = "sw_update"
  /\ \E ok \in F :
       /\ tables' = IF ok
                    THEN [tables EXCEPT
                            ![Head(sweep.todo)].auction.status = "ended",
                            ![Head(sweep.todo)].auction.winning_bidder_id =
                               IF sweep.bid # 0 THEN sweep.bidder ELSE @]
                    ELSE tables
       /\ sweep' = SweepAdvance(ok, "sw_read")
  /\ UNCHANGED <<now, auction, listing, bids, lbids, returned, proc, calls, createVars, chatVars>>

\* ------------------------------------ ListingsService.closeExpiredAuctions
StartListingSweep ==
  /\ sweep.pc = "idle"
  /\ sweep' = [IdleSweep EXCEPT !.pc = "ls_select",
                                !.op = "closeExpiredAuctions", !.now = now]
  /\ UNCHANGED <<now, auction, listing, bids, lbids, returned, proc, calls, tables, createVars, chatVars>>

\* the active auction listings with auction_end < now (a null auction_end
\* matches no comparison)
ExpiredListings(t) == {id \in AuctionIds : /\ tables[id].listing.listing_type = "auction"
                                           /\ tables[id].listing.status = "active"
                                           /\ tables[id].listing.auction_end # 0
                                           /\ tables[id].listing.auction_end < t}

\* select id from listings where listing_type = 'auction' and status = 'active'
\* and auction_end < now
ListingSweepSelect(F) ==
  /\ sweep.pc = "ls_select"
  /\ \E ok \in F :
       IF ok /\ ExpiredListings(sweep.now) # {}
       THEN \E o \in Orderings(ExpiredListings(sweep.now)) :
              sweep' = [sweep EXCEPT !.pc = "ls_update", !.todo = o,
                                     !.found = ExpiredListings(sweep.now)]
       ELSE sweep' = SweepDone(<<>>)
  /\ UNCHANGED <<now, auction, listing, bids, lbids, returned, proc, calls, tables, createVars, chatVars>>

\* update listings set status = 'expired' where id (result unchecked)
ListingSweepUpdate(F) ==
  /\ sweep.pc = "ls_update"
  /\ \E ok \in F :
       /\ tables' = IF ok
                    THEN [tables EXCEPT ![Head(sweep.todo)].listing.status = "expired"]
                    ELSE tables
       /\ sweep' = SweepAdvance(ok, "ls_update")
  /\ UNCHANGED <<now, auction, listing, bids, lbids, returned, proc, calls, createVars, chatVars>>

\* ------------------------------------------- ListingsController.createListing
\* the checks of the route on auction_end before it calls the service
\* (the check of the date format is left out: auction_end is a time)
ValidateCreateAnyEnd(type, end, t) ==
  IF type = "auction" /\ end = 0 THEN "EndRequired"
  ELSE "Pass"

ValidateCreate(type, end, t) ==
  IF type = "auction" /\ end = 0 THEN "EndRequired"
  ELSE IF end # 0 /\ end <= t THEN "EndNotFuture"
  ELSE "Pass"

\* POST /listings: one request at a time; a request the route rejects never
\* reaches the service
StartCreateListing ==
  /\ create.pc \in {"idle", "done"} /\ calls < MaxCalls
  /\ \E type \in ListingTypes, e \in CreateEnds, price \in StartPrices :
       LET v == ValidateCreate(type, e, now)
           req == [pc |-> "cl_insert", id |-> calls + 1, listing_type |-> type,
                   auction_end |-> e, price |-> price, at |-> now, result |-> "none"]
       IN create' = IF v = "Pass" THEN req
                    ELSE [req EXCEPT !.pc = "done", !.result = v]
  /\ calls' = calls + 1
  /\ UNCHANGED <<now, auction, listing, bids, lbids, returned, proc, sweepVars,
                 ltable, atable, chatVars>>

\* ---------------------------------------------- ListingsService.createListing
\* insert into listings ... .select().single(): an error is thrown; a listing
\* that is no auction is fetched again and returned
CreateListingInsert(F) ==
  /\ create.pc = "cl_insert"
  /\ \E ok \in F :
       IF ok
       THEN /\ ltable' = ltable \cup {[id |-> create.id, status |-> "active",
                                       listing_type |-> create.listing_type]}
            /\ create' = IF create.listing_type = "auction"
                         THEN [create EXCEPT !.pc = "cl_auction"]
                         ELSE [create EXCEPT !.pc = "done", !.result = "Ok"]
       ELSE /\ ltable' = ltable
            /\ create' = [create EXCEPT !.pc = "done", !.result = "Failed"]
  /\ UNCHANGED <<now, auction, listing, bids, lbids, returned, proc, calls,
                 sweepVars, atable, chatVars>>

\* without auction_end: delete the listing (result unchecked) and throw;
\* else insert into auctions, on success fetch the listing again and return
CreateListingAuction(F) ==
  /\ create.pc = "cl_auction"
  /\ \E ok \in F :
       IF create.auction_end = 0
       THEN /\ ltable' = IF ok THEN {l \in ltable : l.id # create.id} ELSE ltable
            /\ atable' = atable
            /\ create' = [create EXCEPT !.pc = "done", !.result = "EndRequired"]
       ELSE IF ok
       THEN /\ atable' = atable \cup {[listing_id |-> create.id,
                                       auction_end |-> create.auction_end,
                                       starting_price |-> create.price,
                                       current_bid |-> create.price,
                                       bid_count |-> 0, status |-> "active",
                                       created_at |-> now]}
            /\ ltable' = ltable
            /\ create' = [create EXCEPT !.pc = "done", !.result = "Ok"]
       ELSE /\ UNCHANGED <<ltable, atable>>
            /\ create' = [create EXCEPT !.pc = "cl_rollback"]
  /\ UNCHANGED <<now, auction, listing, bids, lbids, returned, proc, calls,
                 sweepVars, chatVars>>

\* the rollback after a failed insert of the auction: delete from listings
\* where id (result unchecked), then throw
CreateListingRollback(F) ==
  /\ create.pc = "cl_rollback"
  /\ \E ok \in F :
       ltable' = IF ok THEN {l \in ltable : l.id # create.id} ELSE ltable
  /\ create' = [create EXCEPT !.pc = "done", !.result = "Failed"]
  /\ UNCHANGED <<now, auction, listing, bids, lbids, returned, proc, calls,
                 sweepVars, atable, chatVars>>

\* ------------------------------------------------------------ ChatGateway
\* the first user id of the presence map whose entry is the socket, else null
GetUserIdBySocketId(sid) ==
  IF \E u \in Users : onlineUsers[u] = sid
  THEN CHOOSE u \in Users : onlineUsers[u] = sid
  ELSE NoUser

\* a socket connects, with or without a userId in its handshake query:
\* onlineUsers.set(userId, client.id) replaces the entry of the user
HandleConnection(s) ==
  /\ sockets[s].state = "new"
  /\ \E u \in Users \cup {NoUser} :
       /\ sockets' = [sockets EXCEPT ![s] = [state |-> "connected", userId |-> u]]
       /\ onlineUsers' = IF u # NoUser THEN [onlineUsers EXCEPT ![u] = s]
                         ELSE onlineUsers
  /\ UNCHANGED <<now, auction, listing, bids, lbids, returned, proc, calls,
                 sweepVars, createVars, outcome>>

\* a socket disconnects: the user its id resolves to, if any, is deleted
HandleDisconnect(s) ==
  /\ sockets[s].state = "connected"
  /\ sockets' = [sockets EXCEPT ![s].state = "closed"]
  /\ onlineUsers' = IF GetUserIdBySocketId(s) # NoUser
                    THEN [onlineUsers EXCEPT ![GetUserIdBySocketId(s)] = 0]
                    ELSE onlineUsers
  /\ UNCHANGED <<now, auction, listing, bids, lbids, returned, proc, calls,
                 sweepVars, createVars, outcome>>

\* send_message: `if (!senderId) return`, else the message is saved and sent
HandleSendMessage(s) ==
  /\ sockets[s].state = "connected"
  /\ outcome' = [outcome EXCEPT ![s] = IF GetUserIdBySocketId(s) = NoUser
                                       THEN "dropped" ELSE "sent"]
  /\ UNCHANGED <<now, auction, listing, bids, lbids, returned, proc, calls,
                 sweepVars, createVars, sockets, onlineUsers>>

\* ------------------------------------------------------------------ clock
Tick ==
  /\ now < MaxTicks * TickMs
  /\ now' = now + TickMs
  /\ UNCHANGED <<auction, listing, bids, lbids, returned, proc, calls, sweepVars, createVars, chatVars>>

\* the outcomes of one store query: it succeeds (TRUE) or fails (FALSE)
Outcomes == BOOLEAN
Success == {TRUE}

Engine(F) ==
  \/ \E p \in Procs : StartPlaceBid(p)
  \/ \E p \in Procs : PlaceBidRead(p, F)
  \/ \E p \in Procs : PlaceBidInsert(p, F)
  \/ \E p \in Procs : PlaceBidUpdate(p, F)
  \/ \E p \in Procs : StartEndAuction(p)
  \/ \E p \in Procs : EndReadHighest(p, F)
  \/ \E p \in Procs : EndMarkWinning(p, F)
  \/ \E p \in Procs : EndListingSold(p, F)
  \/ \E p \in Procs : EndUpdateAuction(p, F)
  \/ \E p \in Procs : StartCancelAuction(p)
  \/ \E p \in Procs : CancelReadBids(p, F)
  \/ \E p \in Procs : CancelUpdate(p, F)
  \/ \E p \in Procs : StartExtendAuction(p)
  \/ \E p \in Procs : ExtendRead(p, F)
  \/ \E p \in Procs : ExtendUpdate(p, F)
  \/ \E p \in Procs : StartDeleteListing(p)
  \/ \E p \in Procs : DeleteListingRead(p, F)
  \/ \E p \in Procs : DeleteListingBids(p, F)
  \/ \E p \in Procs : DeleteListingRow(p, F)
  \/ Tick

\* the auction engine over a store whose queries may fail
Next == Engine(Outcomes)

Spec == Init /\ [][Next]_vars

\* the auction engine over a store whose queries all succeed
NextReliable == Engine(Success)

SpecReliable == Init /\ [][NextReliable]_vars

\* the operations of AuctionsService on one running auction, over a store
\* whose queries may fail, within one instant of the clock (the clock decides
\* only whether placeBid rejects a bid as too late)
NextTotals ==
  \/ \E p \in Procs : StartPlaceBid(p)
  \/ \E p \in Procs : PlaceBidRead(p, Outcomes)
  \/ \E p \in Procs : PlaceBidInsert(p, Outcomes)
  \/ \E p \in Procs : PlaceBidUpdate(p, Outcomes)
  \/ \E p \in Procs : StartEndAuction(p)
  \/ \E p \in Procs : EndReadHighest(p, Outcomes)
  \/ \E p \in Procs : EndMarkWinning(p, Outcomes)
  \/ \E p \in Procs : EndListingSold(p, Outcomes)
  \/ \E p \in Procs : EndUpdateAuction(p, Outcomes)
  \/ \E p \in Procs : StartCancelAuction(p)
  \/ \E p \in Procs : CancelReadBids(p, Outcomes)
  \/ \E p \in Procs : CancelUpdate(p, Outcomes)
  \/ \E p \in Procs : StartExtendAuction(p)
  \/ \E p \in Procs : ExtendRead(p, Outcomes)
  \/ \E p \in Procs : ExtendUpdate(p, Outcomes)

SpecTotals == Init /\ [][NextTotals]_vars

\* requests to create listings, over a store whose queries may fail
NextCreate ==
  \/ StartCreateListing
  \/ CreateListingInsert(Outcomes)
  \/ CreateListingAuction(Outcomes)
  \/ CreateListingRollback(Outcomes)
  \/ Tick

SpecCreate == Init /\ [][NextCreate]_vars

\* the events of the chat gateway
NextChat ==
  \/ \E s \in SocketIds : HandleConnection(s)
  \/ \E s \in SocketIds : HandleDisconnect(s)
  \/ \E s \in SocketIds : HandleSendMessage(s)

SpecChat == Init /\ [][NextChat]_vars

\* the bidding code of ListingsService, on a listing of either type
InitL == \E t \in ListingTypes : InitWith(t)

NextL ==
  \/ \E p \in Procs : StartListingBid(p)
  \/ \E p \in Procs : ListingBidRead(p, Outcomes)
  \/ \E p \in Procs : ListingBidHighest(p, Outcomes)
  \/ \E p \in Procs : ListingBidInsert(p, Outcomes)
  \/ \E p \in Procs : ListingBidUpdate(p, Outcomes)
  \/ \E p \in Procs : StartUpdateListing(p)
  \/ \E p \in Procs : UpdateListingRead(p, Outcomes)
  \/ \E p \in Procs : UpdateListingWrite(p, Outcomes)
  \/ \E p \in Procs : StartDeleteListing(p)
  \/ \E p \in Procs : DeleteListingRead(p, Outcomes)
  \/ \E p \in Procs : DeleteListingBids(p, Outcomes)
  \/ \E p \in Procs : DeleteListingRow(p, Outcomes)
  \/ Tick

SpecL == InitL /\ [][NextL]_vars

\* a bid row as placeBid inserts it, validated against the current bid rd
BidRow(i, bidder, amt, rd) ==
  [id |-> i, bidder_id |-> bidder, bid_amount |-> amt, is_winning |-> FALSE,
   read_bid |-> rd, open_at_insert |-> TRUE]

\* the bids a running auction holds after none, one or two calls of placeBid
\* returned: in turn (the second bid over the first), or both validated
\* against the starting price (the second update overwrites the first)
BidHistories(price) ==
  {<<>>,
   <<BidRow(1, "alice", 2080, price)>>,
   <<BidRow(1, "alice", 2080, price), BidRow(2, "bob", 2184, 2080)>>,
   <<BidRow(1, "alice", 2080, price), BidRow(2, "bob", 2080, price)>>}

\* the bid_count those calls leave: the count each read, plus one
BidCountAfter(h) ==
  IF h = <<>> THEN 0 ELSE IF h[Len(h)].read_bid = h[1].read_bid THEN 1 ELSE Len(h)

\* a running auction that already holds bids; its auctions row carries the
\* reserve_price of the request it was created from (0 for none)
InitClosing ==
  /\ now = 0
  /\ \E price \in StartPrices, r \in ReservePrices :
       /\ listing = [exists |-> TRUE, seller_id |-> Seller, status |-> "active",
                     listing_type |-> "auction", auction_end |-> 0,
                     price_amount |-> price]
       /\ \E h \in BidHistories(price) :
            /\ bids = h
            /\ returned = {h[i].id : i \in 1..Len(h)}
            /\ auction = [status |-> "active", auction_end |-> AuctionEnd0,
                          current_bid |-> IF h = <<>> THEN price
                                          ELSE h[Len(h)].bid_amount,
                          starting_price |-> price,
                          bid_count |-> BidCountAfter(h),
                          winning_bidder_id |-> NoUser,
                          reserve_price |-> r]
  /\ lbids = <<>>
  /\ proc = [p \in Procs |-> IdleProc]
  /\ calls = 0
  /\ NoSweep /\ NoCreate /\ NoChat

\* bidding, closing and cancelling, over a store whose queries may fail
NextClosing ==
  \/ \E p \in Procs : StartPlaceBid(p)
  \/ \E p \in Procs : PlaceBidRead(p, Outcomes)
  \/ \E p \in Procs : PlaceBidInsert(p, Outcomes)
  \/ \E p \in Procs : PlaceBidUpdate(p, Outcomes)
  \/ \E p \in Procs : StartEndAuction(p)
  \/ \E p \in Procs : EndReadHighest(p, Outcomes)
  \/ \E p \in Procs : EndMarkWinning(p, Outcomes)
  \/ \E p \in Procs : EndListingSold(p, Outcomes)
  \/ \E p \in Procs : EndUpdateAuction(p, Outcomes)
  \/ \E p \in Procs : StartCancelAuction(p)
  \/ \E p \in Procs : CancelReadBids(p, Outcomes)
  \/ \E p \in Procs : CancelUpdate(p, Outcomes)
  \/ Tick

SpecClosing == InitClosing /\ [][NextClosing]_vars

\* the rows of a running auction, as far as the sweeps use them: its auctions
\* row, its bids (none, or one) and its listing, whose auction_end is null
\* (0) unless updateListing has set it
SweptRows ==
  {[auction |-> [status |-> "active", auction_end |-> e, winning_bidder_id |-> NoUser],
    bids |-> h,
    listing |-> [listing_type |-> "auction", status |-> "active",
                 auction_end |-> IF set THEN e ELSE 0]] :
     e \in AuctionEnds, h \in {<<>>, <<BidRow(1, "alice", 2080, 1980)>>},
     set \in BOOLEAN}

\* one run of a sweep, at any time, over the auctions of tables
InitSweep ==
  /\ InitOne("auction")
  /\ tables \in [AuctionIds -> SweptRows]
  /\ sweep = IdleSweep
  /\ NoCreate /\ NoChat

\* a step of a sweep that is under way
SweepStep(F) ==
  \/ SweepSelect(F)
  \/ SweepEndRead(F)
  \/ SweepEndMark(F)
  \/ SweepEndListing(F)
  \/ SweepEndUpdate(F)
  \/ ListingSweepSelect(F)
  \/ ListingSweepUpdate(F)

Sweeps(F) ==
  \/ StartSweep
  \/ SweepSelect(F)
  \/ SweepEndRead(F)
  \/ SweepEndMark(F)
  \/ SweepEndListing(F)
  \/ SweepEndUpdate(F)
  \/ StartListingSweep
  \/ ListingSweepSelect(F)
  \/ ListingSweepUpdate(F)
  \/ Tick

\* the sweeps over a store whose queries may fail
NextSweep == Sweeps(Outcomes)

SpecSweep == InitSweep /\ [][NextSweep]_vars

\* every awaited query of a sweep under way resolves
SpecSweepFair == SpecSweep /\ WF_vars(SweepStep(Outcomes))

\* the sweeps over a store whose queries all succeed
NextSweepReliable == Sweeps(Success)

SpecSweepReliable == InitSweep /\ [][NextSweepReliable]_vars

\* ------------------------------------------------------------ properties
Quiescent == \A p \in Procs : Free(p)

\* the accepted bids: stored, and returned to the caller of placeBid
AcceptedIdx == {i \in 1..Len(bids) : bids[i].id \in returned}

\* the least admissible amount over a current bid cb, times 100:
\* cb + max(5% of cb, 1 dollar)
ClaimedMinBid100(cb) == 100 * cb + (IF 5 * cb > 10000 THEN 5 * cb ELSE 10000)

\* the error a validation that checks status, expiry, seller and amount in
\* this order reports
ClaimedFirstFailure(active, beforeEnd, notSeller, enough) ==
  IF ~active THEN "NotActive"
  ELSE IF ~beforeEnd THEN "Ended"
  ELSE IF ~notSeller THEN "SelfBid"
  ELSE IF ~enough THEN "BidTooLow"
  ELSE "Admit"

ErrorKind(r) == IF r \in {"NotHigher", "TooLow"} THEN "BidTooLow" ELSE r

\* the current price of the listing as stored: its highest bid, else price_amount
StoredListingPrice == IF HighestListingBid # 0 THEN HighestListingBid
                      ELSE listing.price_amount

\* no call of endAuction is between its first query and its return
NoCloseInFlight == \A p \in Procs : proc[p].op = "endAuction" => Free(p)

\* the bids flagged is_winning
WinningIdx == {i \in 1..Len(bids) : bids[i].is_winning}

\* a sweep is under way, has returned
SweepRunning == sweep.pc \notin {"idle", "done"}

SweepReturned == sweep.pc = "done"

\* the auction is closed as the sweep op closes it: checkAndEndExpiredAuctions
\* ends the auction, closeExpiredAuctions expires its listing
ClosedBy(op, id) ==
  IF op = "checkAndEndExpiredAuctions" THEN tables[id].auction.status = "ended"
  ELSE tables[id].listing.status = "expired"

\* C1: once every invocation has finished, bid_count equals the number of
\* accepted bids (no update of bid_count is lost)
C1_BidCountEqualsAccepted ==
  Quiescent => auction.bid_count = Cardinality(AcceptedIdx)

\* C2: current_bid is the maximum amount among the accepted bids, or
\* starting_price when no bid has been accepted
C2_CurrentBidIsMaxAccepted ==
  IF AcceptedIdx = {} THEN auction.current_bid = auction.starting_price
  ELSE /\ \E i \in AcceptedIdx : bids[i].bid_amount = auction.current_bid
       /\ \A i \in AcceptedIdx : bids[i].bid_amount <= auction.current_bid

\* C3: no step lowers current_bid
C3_CurrentBidMonotone ==
  [][auction'.current_bid >= auction.current_bid]_vars

\* C4: no two accepted bids were validated against the same current_bid
C4_OneAcceptedPerSnapshot ==
  \A i, j \in AcceptedIdx : i # j => bids[i].read_bid # bids[j].read_bid

\* C5: along the accepted bids in placement order, each amount is at least
\* the previous amount plus the minimum increment over it
C5_AcceptedStrictlyIncreasing ==
  \A i, j \in AcceptedIdx :
    (i < j /\ ~\E k \in AcceptedIdx : i < k /\ k < j)
      => bids[j].bid_amount * 100 >= ClaimedMinBid100(bids[i].bid_amount)

\* C6: in every state the totals of the auction account for exactly the
\* stored bids: bid_count is their number and current_bid their highest
\* amount (starting_price when there is none)
C6_BidAndTotalsAtomic ==
  /\ auction.bid_count = Len(bids)
  /\ IF bids = <<>> THEN auction.current_bid = auction.starting_price
     ELSE /\ \E i \in 1..Len(bids) : bids[i].bid_amount = auction.current_bid
          /\ \A i \in 1..Len(bids) : bids[i].bid_amount <= auction.current_bid

\* C7: every bid row was inserted while its auction was active and
\* now < auction_end
C7_BidsOnlyWhileOpen ==
  \A i \in 1..Len(bids) : bids[i].open_at_insert

\* C8: on an active, unexpired auction a bid of a non-seller is admitted
\* exactly when amount >= currentBid + max(5% of currentBid, 1), by either
\* service
C8_AcceptIffMinIncrement ==
  [][\A p \in Procs :
       /\ (/\ proc[p].pc = "pb_read" /\ proc'[p].pc # "pb_read"
           /\ auction.status = "active" /\ now < auction.auction_end
           /\ proc[p].bidder # listing.seller_id)
          => (proc'[p].pc = "pb_insert"
                <=> proc[p].amount * 100 >= ClaimedMinBid100(CurrentBidOf(auction)))
       /\ (/\ proc[p].pc = "lb_highest" /\ proc'[p].pc # "lb_highest"
           /\ listing.exists /\ auction.status = "active" /\ now < auction.auction_end
           /\ proc[p].bidder # listing.seller_id)
          => (proc'[p].pc = "lb_insert"
                <=> proc[p].amount * 100 >= ClaimedMinBid100(StoredListingPrice))
    ]_vars

\* C9: a bid by the seller of the auction's listing is never admitted and
\* writes nothing, whatever the amount and whatever the joined listing column
\* holds; on an active, unexpired auction its error is the self-bid error
\* (on a closed or expired auction an earlier check rejects it)
C9_SellerBidRejected ==
  [][\A p \in Procs :
       (proc[p].pc = "pb_read" /\ proc'[p].pc # "pb_read"
        /\ proc[p].bidder = listing.seller_id)
         => (/\ proc'[p].pc = "done"
             /\ proc'[p].result \in {"NotActive", "Ended", "SelfBid"}
             /\ (auction.status = "active" /\ now < auction.auction_end)
                  => proc'[p].result = "SelfBid"
             /\ bids' = bids /\ auction' = auction)
    ]_vars

\* C10: a rejected bid is rejected with the error of the first failing check
\* in the order status, now < endTime, not the seller, amount, by either service
C10_FirstFailingCheckReported ==
  [][\A p \in Procs :
       (/\ proc[p].pc \in {"pb_read", "lb_read", "lb_highest"}
        /\ proc'[p].pc = "done"
        /\ proc'[p].result \in {"NotActive", "Ended", "SelfBid", "NotHigher", "TooLow"})
         => ErrorKind(proc'[p].result) =
              IF proc[p].op = "placeBid"
              THEN ClaimedFirstFailure(auction.status = "active",
                                       now < auction.auction_end,
                                       proc[p].bidder # listing.seller_id,
                                       proc[p].amount * 100
                                         >= ClaimedMinBid100(CurrentBidOf(auction)))
              ELSE ClaimedFirstFailure(auction.status = "active",
                                       now < auction.auction_end,
                                       proc[p].bidder # listing.seller_id,
                                       proc[p].amount * 100
                                         >= ClaimedMinBid100(StoredListingPrice))
    ]_vars

\* C11: when placeBid rejects a bid for its amount, a bid of exactly the amount
\* its error reports, by the same bidder on the unchanged auction, is admitted
C11_ReportedAmountIsAccepted ==
  [][\A p \in Procs :
       (/\ proc[p].pc = "pb_read" /\ proc'[p].pc = "done"
        /\ proc'[p].result \in {"NotHigher", "TooLow"})
         => \E shape \in JoinShapes :
              ValidateBid(auction, JoinedListing(shape), proc[p].bidder,
                          ErrorAmount(proc'[p].result, auction), now) = "Admit"
    ]_vars

\* C12: an endAuction called on an auction that already has status ended
\* changes nothing in the store: no step of it alters the auctions row, a bid
\* row or the listing
C12_CloseIdempotent ==
  [][\A p \in Procs :
       (proc[p].op = "endAuction" /\ proc[p].closed /\ proc'[p] # proc[p])
         => (auction' = auction /\ bids' = bids /\ listing' = listing)
    ]_vars

\* C13: whenever no endAuction is under way, an active auction has no bid
\* flagged is_winning and an ended auction that has bids has exactly one
C13_WinningFlagMatchesStatus ==
  NoCloseInFlight =>
    /\ auction.status = "active" => WinningIdx = {}
    /\ (auction.status = "ended" /\ Len(bids) > 0) => Cardinality(WinningIdx) = 1

\* C14: once every invocation has finished, winning_bidder_id is set exactly
\* when the auction is ended (or completed) and its bid_count is above 0
C14_WinnerIffClosedWithBids ==
  Quiescent =>
    (auction.winning_bidder_id # NoUser
       <=> (auction.status \in {"ended", "completed"} /\ auction.bid_count > 0))

\* C15: the bid endAuction takes as the highest (the one it then flags
\* is_winning and whose bidder it records as the winner) has the maximal amount
\* among the stored bids, and is the earliest placed of those with that amount
C15_WinnerIsEarliestHighest ==
  [][\A p \in Procs :
       (proc[p].pc = "ea_read" /\ proc'[p].pc = "ea_mark")
         => \A j \in 1..Len(bids) :
              /\ bids[j].bid_amount <= bids[proc'[p].bid].bid_amount
              /\ bids[j].bid_amount = bids[proc'[p].bid].bid_amount
                   => proc'[p].bid <= j
    ]_vars

C17_NoBidsCancelledNotEnded ==
  \A id \in DOMAIN tables :
    tables[id].bids = <<>>
      => (/\ tables[id].auction.status # "ended"
          /\ tables[id].auction.winning_bidder_id = NoUser)

\* C18: when a sweep returns and no query has failed, no auction is left
\* active with auction_end <= the time of the sweep, and every auction the
\* sweep closed has auction_end <= that time
C18_SweepClosesAllExpired ==
  [][(SweepRunning /\ sweep'.pc = "done")
       => /\ \A id \in AuctionIds :
               ~(/\ tables'[id].auction.status = "active"
                 /\ tables'[id].auction.auction_end <= sweep.now)
          /\ \A k \in 1..Len(sweep'.log) :
               tables'[sweep'.log[k].id].auction.auction_end <= sweep.now
    ]_vars

\* C19: a sweep that has returned has handled every auction its query found,
\* and each of them is closed unless its own closing write failed; and a
\* sweep under way returns
C19_ClosuresIndependent ==
  /\ [](SweepReturned =>
          \A id \in sweep.found :
            \E k \in 1..Len(sweep.log) :
              /\ sweep.log[k].id = id
              /\ sweep.log[k].ok => ClosedBy(sweep.op, id))
  /\ (SweepRunning ~> SweepReturned)

\* C19 witness: a sweep found two auctions, failed to close the first it
\* handled and closed the second
C19_Witness ==
  /\ SweepReturned
  /\ Len(sweep.log) = 2
  /\ ~sweep.log[1].ok
  /\ sweep.log[2].ok /\ ClosedBy(sweep.op, sweep.log[2].id)
  /\ ~ClosedBy(sweep.op, sweep.log[1].id)

\* C20: a checkAndEndExpiredAuctions in which a closure failed returns a
\* result other than that of a sweep whose closures all succeeded
C20_SweepReportsFailures ==
  (/\ SweepReturned /\ sweep.op = "checkAndEndExpiredAuctions"
   /\ \E k \in 1..Len(sweep.log) : ~sweep.log[k].ok)
    => sweep.result # "Void"

\* C21: auction status follows only active -> ended, ended -> completed and
\* active -> cancelled: no step takes a cancelled auction to ended, and no
\* step takes an ended or cancelled auction back to active
C21_LifecycleTransitions ==
  [][/\ auction.status = "cancelled" => auction'.status # "ended"
     /\ auction.status \in {"ended", "cancelled"} => auction'.status # "active"]_vars

\* C22: no auction with status cancelled has a stored bid, whatever the
\* interleaving of cancelAuction and placeBid
C22_CancelledHasNoBids ==
  auction.status = "cancelled" => bids = <<>>

\* C23: an active auction is ended only on expiry or by the seller of its
\* listing: no step of an end-auction call made by a user who is not the
\* seller, taken before auction_end, changes the status of the active auction
C23_OnlySellerEndsEarly ==
  [][\A p \in Procs :
       (/\ proc[p].op = "endAuction" /\ proc'[p] # proc[p]
        /\ proc[p].caller # listing.seller_id
        /\ now < auction.auction_end
        /\ auction.status = "active")
       => auction'.status = "active"]_vars

\* C24: in every reachable state current_bid >= starting_price, and
\* bid_count = 0 implies current_bid = starting_price, through any interleaving
\* of placeBid, endAuction, cancelAuction and extendAuction
C24_CurrentBidAtLeastStart ==
  /\ auction.current_bid >= auction.starting_price
  /\ auction.bid_count = 0 => auction.current_bid = auction.starting_price

\* two calls of placeBid validated against the same row have both written the
\* totals, the second one the lower amount
C24_Witness ==
  /\ Len(bids) = 2
  /\ bids[2].read_bid = bids[1].read_bid
  /\ auction.current_bid < bids[1].bid_amount
  /\ auction.current_bid > auction.starting_price
  /\ auction.bid_count = 1

\* C25: a failure of the store is reported as a condition distinct from the
\* business errors: a call of placeBid on the auction, which exists, never
\* ends in the auction-not-found error, and a call that ends because a store
\* write failed does not throw the exception of a bid-validation error
C25_StoreFailureDistinct ==
  \A p \in Procs :
    (proc[p].op = "placeBid" /\ proc[p].pc = "done") =>
      /\ proc[p].result # "NotFound"
      /\ proc[p].result = "Failed" =>
           PlaceBidException("Failed") \notin
             {PlaceBidException(v) : v \in {"NotActive", "Ended", "SelfBid",
                                            "NotHigher", "TooLow"}}

\* C27: whenever placeBid returns an error, the store is unchanged by that
\* call: the step on which a call ends in an error writes nothing, and the
\* call has inserted no bid row before it
C27_ErrorLeavesStoreUnchanged ==
  [][\A p \in Procs :
       (/\ proc[p].op = "placeBid" /\ proc[p].pc # "done"
        /\ proc'[p].pc = "done" /\ proc'[p].result # "Ok")
       => /\ proc[p].bid = 0
          /\ auction' = auction
          /\ bids' = bids]_vars

\* C29: extendAuction changes auction_end only for an auction whose status is
\* active, never moves it to an earlier instant, and moves it forward by at
\* most 1440 minutes per call, also when endAuction or cancelAuction runs
\* between its read and its update
C29_ExtendOnlyForward ==
  [][\A p \in Procs :
       (/\ proc[p].op = "extendAuction" /\ proc'[p] # proc[p]
        /\ auction'.auction_end # auction.auction_end)
       => /\ auction.status = "active"
          /\ auction'.auction_end >= auction.auction_end
          /\ auction'.auction_end <=
               auction.auction_end + MaxExtensionMinutes * MsPerMinute]_vars

\* C26: every auction record is created by createListing for a listing of
\* type auction with status active, bid_count 0, current_bid equal to
\* starting_price and an auction_end that is present and strictly later than
\* the creation time; a request without auction_end, or with an auction_end
\* not in the future, creates no auction
C26_AuctionCreatedInFuture ==
  [][/\ \A a \in atable' \ atable :
          /\ create.listing_type = "auction" /\ a.listing_id = create.id
          /\ a.status = "active" /\ a.bid_count = 0
          /\ a.current_bid = a.starting_price
          /\ a.auction_end # 0 /\ a.auction_end > a.created_at
     /\ create'.result \in {"EndRequired", "EndNotFuture"}
          => \A a \in atable' : a.listing_id # create'.id]_vars

\* C26, amended: as above, with an auction_end strictly later than the time
\* at which the route validated the request (the insert may come later)
C26_AuctionEndAfterValidation ==
  [][/\ \A a \in atable' \ atable :
          /\ create.listing_type = "auction" /\ a.listing_id = create.id
          /\ a.status = "active" /\ a.bid_count = 0
          /\ a.current_bid = a.starting_price
          /\ a.auction_end # 0 /\ a.auction_end > create.at
     /\ create'.result \in {"EndRequired", "EndNotFuture"}
          => \A a \in atable' : a.listing_id # create'.id]_vars

\* a request has returned its auction, inserted later than the route
\* validated the request
C26_Witness ==
  /\ create.pc = "done" /\ create.result = "Ok"
  /\ \E a \in atable : a.listing_id = create.id /\ a.created_at > create.at

\* C28: createListing for listing type auction is all-or-nothing: once the
\* call has finished, either the listing row and exactly one auction row for
\* it exist and the call succeeded, or neither exists and it returned an error
C28_CreateAllOrNothing ==
  (create.pc = "done" /\ create.listing_type = "auction") =>
    LET stored == \E l \in ltable : l.id = create.id
        rows == {a \in atable : a.listing_id = create.id}
    IN IF create.result = "Ok" THEN stored /\ Cardinality(rows) = 1
       ELSE ~stored /\ rows = {}

\* C30: a user id is in the onlineUsers map if and only if a socket that
\* connected with that user id is still connected, and every connected socket
\* that connected with a user id resolves to that user id
C30_PresenceMatchesConnections ==
  /\ \A u \in Users :
       onlineUsers[u] # 0 <=>
         \E s \in SocketIds : sockets[s].state = "connected" /\ sockets[s].userId = u
  /\ \A s \in SocketIds :
       (sockets[s].state = "connected" /\ sockets[s].userId # NoUser)
         => GetUserIdBySocketId(s) = sockets[s].userId

====
